---- MODULE Spec2Model ----
(***************************************************************************)
(* A model of app.py, the Flask back end of the DK scanner.                *)
(*                                                                         *)
(* The server handles one request at a time.  Two routes are modelled,     *)
(* /api/start_scan and /api/get_details, together with the helpers they    *)
(* call: get_spotify_token, get_full_album_details, get_artist_details and *)
(* check_artist_most_recent_release.  The two batching helpers are also    *)
(* driven directly, with id lists long enough to span several chunks.      *)
(*                                                                         *)
(* The upstream (Spotify) is the environment: every answer it gives is a   *)
(* nondeterministic choice.  Copyright texts are real strings and the      *)
(* P-line pattern is matched character by character.                       *)
(***************************************************************************)
EXTENDS Integers, Sequences, FiniteSets, TLC

VARIABLES
    pc,              \* where the server is: "idle", or a position inside a handler
    handler,         \* the handler that is running (or has just answered)
    env,             \* CLIENT_ID / CLIENT_SECRET as loaded at import time
    exchange,        \* the upstream's answer to this call's credential exchange
    token,           \* the value get_spotify_token returned to the handler
    asked,           \* the API endpoints this call has sent a request to
    response,        \* the handler's HTTP response
    \* ---- start_scan locals
    total_results, random_offset, page, next_url, all_album_ids,
    \* ---- get_details locals
    artists_already_found, full_albums, ai, ri,
    artists_to_fetch_details_for, final_artist_list,
    lastCheck,       \* history: the latest check_artist_most_recent_release of this call
    confirmed,       \* history: artist ids for which a check returned True in this call
    failedCheck,     \* history: artist ids for which a check failed on a fetch in this call
    detailed,        \* history: the records get_artist_details returned in this call
    \* ---- direct calls of the batching helpers
    b_kind, b_ids, b_i, b_list, b_reqs,
    b_last,          \* history: the latest chunk: what was asked, answered and done
    b_answered,      \* history: the well-formed 200 bodies the upstream delivered last, in order
    b_chunks,        \* history: number of chunks requested so far
    b_failed,        \* history: number of chunks so far that ended in a caught exception
    b_clean          \* history: every list delivered so far held only ids of its chunk, once each

scanVars == <<total_results, random_offset, page, next_url, all_album_ids>>
detVars  == <<artists_already_found, full_albums, ai, ri,
              artists_to_fetch_details_for, final_artist_list,
              lastCheck, confirmed, failedCheck, detailed>>
batVars  == <<b_kind, b_ids, b_i, b_list, b_reqs, b_last, b_answered, b_chunks, b_failed, b_clean>>
vars     == <<pc, handler, env, exchange, token, asked, response,
              scanVars, detVars, batVars>>

(***************************************************************************)
(* Program constants                                                       *)
(***************************************************************************)
MAX_FOLLOWERS    == 100000
AlbumChunk       == 20
ArtistChunk      == 50
DefaultRetry     == 10
DefaultTotal     == 1000
OffsetCap        == 950
PageSize         == 50
ScanPages        == 10

(***************************************************************************)
(* Bounds of the model                                                     *)
(***************************************************************************)
MaxTotal   == 1001   \* the upstream reports a total in 0..MaxTotal
MaxAlbums  == 2      \* album ids in one get_details request
MaxChunks  == 2      \* chunks spanned by a direct call of a batching helper

(***************************************************************************)
(* Text: P_LINE_REGEX = re.compile(r"\d+\s+records\s+dk", re.IGNORECASE)   *)
(***************************************************************************)
UpperCase == "ABCDEFGHIJKLMNOPQRSTUVWXYZ"
LowerCase == "abcdefghijklmnopqrstuvwxyz"

At(t, i) == SubSeq(t, i, i)

\* str.lower() of one character, as IGNORECASE folds it
LowerOf == [i \in 1..Len(UpperCase) |-> At(LowerCase, i)]
Lower(c) ==
    IF \E i \in 1..Len(UpperCase) : At(UpperCase, i) = c
    THEN LowerOf[CHOOSE i \in 1..Len(UpperCase) : At(UpperCase, i) = c]
    ELSE c

IsDigit(c) == c \in {"0", "1", "2", "3", "4", "5", "6", "7", "8", "9"}
IsSpace(c) == c \in {" ", "\t"}

\* the literal w (lower case) stands at position i of t, case ignored
LitAt(t, i, w) ==
    /\ i >= 1
    /\ i + Len(w) - 1 <= Len(t)
    /\ \A j \in 1..Len(w) : Lower(At(t, i + j - 1)) = At(w, j)

\* every character of t[a..b] is white space, and there is at least one
SpacesIn(t, a, b) == a <= b /\ \A j \in a..b : IsSpace(At(t, j))

\* P_LINE_REGEX.search(text): somewhere in text stand one or more digits, white
\* space, "records", white space, "dk"
P_LINE_REGEX_search(text) ==
    \E k \in 1..Len(text) :
        /\ LitAt(text, k, "records")
        /\ \E j \in 2..(k - 1) : SpacesIn(text, j, k - 1) /\ IsDigit(At(text, j - 1))
        /\ \E l \in (k + 8)..Len(text) : SpacesIn(text, k + 7, l - 1) /\ LitAt(text, l, "dk")

(***************************************************************************)
(* get_spotify_token                                                       *)
(***************************************************************************)
ExchangeAnswers == {"token", "no_token", "http_error", "exception"}

\* the answer the exchange receives: nothing is sent when a credential is missing
ExchangeSeen(e, answer) == IF e.id /\ e.secret THEN answer ELSE "not_sent"

\* raise_for_status and the test of the token are missing
get_spotify_token_Unchecked(e, answer) ==
    IF ~e.id \/ ~e.secret THEN "None" ELSE "tok"

get_spotify_token(e, answer) ==
    IF ~e.id \/ ~e.secret THEN "None"
    ELSE IF answer = "token" THEN "tok"
    ELSE "None"

(***************************************************************************)
(* One chunk of get_full_album_details / get_artist_details                *)
(*                                                                         *)
(* The upstream's side of a chunk: the status of its first answer, the     *)
(* Retry-After header of that answer, the status of the answer it gives to *)
(* a second request, and the body it sends with a 200.                     *)
(***************************************************************************)
NoHint   == [present |-> FALSE, text |-> ""]
Hints    == {NoHint, [present |-> TRUE, text |-> "5"],
             [present |-> TRUE, text |-> "-1"], [present |-> TRUE, text |-> "soon"]}

\* a body json() cannot decode, or whose list is null; also the body of a non-200
BadBody  == [json_ok |-> FALSE, list |-> <<>>]
Body(l)  == [json_ok |-> TRUE, list |-> l]

NoOutcome == [first |-> "none", hint |-> NoHint, second |-> "none", body |-> BadBody]

ChunkOutcomes(lists) ==
    LET bodies == {Body(l) : l \in lists} \cup {BadBody} IN
       {[first |-> "200", hint |-> NoHint, second |-> "none", body |-> b] : b \in bodies}
    \cup {[first |-> f, hint |-> NoHint, second |-> "none", body |-> BadBody] :
             f \in {"500", "exc"}}
    \cup {[first |-> "429", hint |-> h, second |-> "200", body |-> b] :
             h \in Hints, b \in bodies}
    \cup {[first |-> "429", hint |-> h, second |-> s, body |-> BadBody] :
             h \in Hints, s \in {"429", "500", "exc"}}

\* int(s) of a decimal string: an optional sign and digits, ValueError otherwise
DigitVal(c) == CHOOSE d \in 0..9 : At("0123456789", d + 1) = c

RECURSIVE DigitsVal(_)
DigitsVal(s) ==
    IF Len(s) = 0 THEN 0
    ELSE 10 * DigitsVal(SubSeq(s, 1, Len(s) - 1)) + DigitVal(At(s, Len(s)))

AllDigits(s) == Len(s) > 0 /\ \A i \in 1..Len(s) : IsDigit(At(s, i))

ParseInt(s) ==
    IF AllDigits(s) THEN [ok |-> TRUE, val |-> DigitsVal(s)]
    ELSE IF Len(s) > 1 /\ At(s, 1) = "-" /\ AllDigits(SubSeq(s, 2, Len(s)))
         THEN [ok |-> TRUE, val |-> 0 - DigitsVal(SubSeq(s, 2, Len(s)))]
    ELSE [ok |-> FALSE, val |-> 0]

\* int(response.headers.get('Retry-After', 10))
RetryAfter(h) == IF h.present THEN ParseInt(h.text) ELSE [ok |-> TRUE, val |-> DefaultRetry]

\* the try block without the 429 branch: a 429 goes straight to raise_for_status
ChunkAttemptNoRetry(o) ==
    [error    |-> IF o.first = "exc" THEN "Exception"
                  ELSE IF o.first # "200" THEN "HTTPError"
                  ELSE IF ~o.body.json_ok THEN "Exception"
                  ELSE "none",
     requests |-> 1,
     slept    |-> 0,
     list     |-> IF o.first = "200" /\ o.body.json_ok THEN o.body.list ELSE <<>>]

\* The try block of one chunk: the first request; on 429 the header is read, the
\* client sleeps (a negative time raises) and asks once more; raise_for_status;
\* json(); the records.  error is the exception the block ends with, if any.
ChunkAttempt(o) ==
    LET ra      == RetryAfter(o.hint)
        retried == o.first = "429" /\ ra.ok /\ ra.val >= 0
        final   == IF retried THEN o.second ELSE o.first
        error   == IF o.first = "exc" THEN "Exception"
                   ELSE IF o.first = "429" /\ ~retried THEN "Exception"
                   ELSE IF final = "exc" THEN "Exception"
                   ELSE IF final # "200" THEN "HTTPError"
                   ELSE IF ~o.body.json_ok THEN "Exception"
                   ELSE "none"
    IN  [error    |-> error,
         requests |-> IF retried THEN 2 ELSE 1,
         slept    |-> IF retried THEN ra.val ELSE 0,
         list     |-> IF error = "none" THEN o.body.list ELSE <<>>]

\* the second except clause is missing
CaughtHTTPOnly(error) == error = "HTTPError"

\* except requests.exceptions.HTTPError ... except Exception ...
Caught(error) == error \in {"HTTPError", "Exception"}

\* the end of an iteration whose try block ended as a: list.extend(...) when the
\* chunk succeeded; a caught exception is logged and the list is left as it was;
\* an exception not caught escapes
EndChunk(list, a) ==
    [list     |-> list \o a.list,
     requests |-> a.requests,
     slept    |-> a.slept,
     ok       |-> a.error = "none",
     escaped  |-> a.error # "none" /\ ~Caught(a.error)]

\* one iteration of the loop over the chunks
ChunkStep(list, o) == EndChunk(list, ChunkAttempt(o))

Min(a, b) == IF a < b THEN a ELSE b

\* ids[i:i + K + 1]: the slice runs one id into the next chunk
SliceOneMore(ids, i, K) == SubSeq(ids, i + 1, Min(i + K + 1, Len(ids)))

\* ids[i:i + K]
Slice(ids, i, K) == SubSeq(ids, i + 1, Min(i + K, Len(ids)))

\* for i in range(0, len(ids), K): chunk = ids[i:i + K]
NumChunks(n, K) == (n + K - 1) \div K
Chunk(ids, K, c) == Slice(ids, (c - 1) * K, K)

\* the running result of the helper after one more chunk ended as s
Accumulate(acc, s) ==
    [list |-> s.list, requests |-> acc.requests + s.requests, escaped |-> s.escaped]

\* the whole helper: outs[c] is the upstream's side of chunk c
RECURSIVE BatchFrom(_, _, _, _, _)
BatchFrom(ids, K, outs, c, acc) ==
    IF c > NumChunks(Len(ids), K) \/ acc.escaped THEN acc
    ELSE BatchFrom(ids, K, outs, c + 1, Accumulate(acc, ChunkStep(acc.list, outs[c])))

GetBatch(ids, K, outs) ==
    BatchFrom(ids, K, outs, 1, [list |-> <<>>, requests |-> 0, escaped |-> FALSE])

(***************************************************************************)
(* Direct calls of the two batching helpers                                *)
(***************************************************************************)
ChunkSize(kind) == IF kind = "albums" THEN AlbumChunk ELSE ArtistChunk

\* list lengths around the chunk boundaries, up to MaxChunks chunks
Lengths(K) ==
    {0, 1} \cup {c * K : c \in 1..MaxChunks} \cup {c * K + 1 : c \in 1..(MaxChunks - 1)}

\* ids 1..n, or the same list with its last id repeating its first
IdList(n, dup) == [i \in 1..n |-> IF dup /\ i = n /\ n > 1 THEN 1 ELSE i]

Rec(id)  == [isnull |-> FALSE, id |-> id]
NullRec  == [isnull |-> TRUE, id |-> 0]

\* what the upstream may send for a chunk: a record per id; the same with a null
\* for an unknown id; the first record for every id; nothing
ChunkLists(chunk) ==
    {[j \in 1..Len(chunk) |-> Rec(chunk[j])],
     [j \in 1..Len(chunk) |-> IF j = 1 THEN NullRec ELSE Rec(chunk[j])],
     [j \in 1..Len(chunk) |-> Rec(chunk[1])],
     <<>>}

NoChunk == [chunk |-> <<>>, o |-> NoOutcome, requests |-> 0, ok |-> FALSE, slept |-> 0]

\* what the upstream delivered for the latest chunk: the list of its last answer
\* when that answer was a 200 with a well-formed body
Delivered(o, requests) ==
    LET last == IF requests = 2 THEN o.second ELSE o.first IN
    IF last = "200" /\ o.body.json_ok THEN o.body.list ELSE <<>>

BatInit ==
    /\ b_kind = "none" /\ b_ids = <<>> /\ b_i = 0 /\ b_list = <<>> /\ b_reqs = 0
    /\ b_last = NoChunk /\ b_answered = <<>> /\ b_chunks = 0 /\ b_failed = 0 /\ b_clean = TRUE

\* get_full_album_details(ids, token) / get_artist_details(ids, token) is called
BatchCall(kind, n, dup) ==
    /\ pc = "idle"
    /\ pc' = "batch"
    /\ handler' = kind
    /\ b_kind' = kind
    /\ b_ids' = IdList(n, dup)
    /\ b_i' = 0 /\ b_list' = <<>> /\ b_reqs' = 0
    /\ b_last' = NoChunk /\ b_answered' = <<>> /\ b_chunks' = 0 /\ b_failed' = 0 /\ b_clean' = TRUE
    /\ UNCHANGED <<env, exchange, token, asked, response, scanVars, detVars>>

\* the list holds records of ids of the chunk only, and none of them twice
CleanList(chunk, list) ==
    /\ \A j \in 1..Len(list) :
          ~list[j].isnull => \E k \in 1..Len(chunk) : chunk[k] = list[j].id
    /\ \A j, k \in 1..Len(list) :
          (j < k /\ ~list[j].isnull /\ ~list[k].isnull) => list[j].id # list[k].id

\* the loop's state after the iteration on chunk, answered o, ended as s
Stepped(chunk, o, s) ==
    /\ b_list' = s.list
    /\ b_reqs' = b_reqs + s.requests
    /\ b_last' = [chunk |-> chunk, o |-> o, requests |-> s.requests,
                  ok |-> s.ok, slept |-> s.slept]
    /\ b_answered' = b_answered \o Delivered(o, s.requests)
    /\ b_clean' = (b_clean /\ CleanList(chunk, Delivered(o, s.requests)))
    /\ b_chunks' = b_chunks + 1
    /\ b_failed' = IF s.ok THEN b_failed ELSE b_failed + 1
    /\ b_i' = b_i + ChunkSize(b_kind)
    /\ pc' = IF s.escaped THEN "raised" ELSE "batch"

\* one iteration of the loop over the chunks
BatchChunk ==
    /\ pc = "batch"
    /\ b_i < Len(b_ids)
    /\ \E o \in ChunkOutcomes(ChunkLists(Slice(b_ids, b_i, ChunkSize(b_kind)))) :
          Stepped(Slice(b_ids, b_i, ChunkSize(b_kind)), o, ChunkStep(b_list, o))
    /\ UNCHANGED <<handler, b_kind, b_ids, env, exchange, token, asked, response,
                   scanVars, detVars>>

\* the loop is over (or the list was empty): return the list
BatchReturn ==
    /\ pc = "batch"
    /\ b_i >= Len(b_ids)
    /\ pc' = "returned"
    /\ UNCHANGED <<handler, env, exchange, token, asked, response, scanVars, detVars, batVars>>

(***************************************************************************)
(* The upstream's catalogue, as far as get_details can see it.             *)
(* Records are well typed (a text is a string, a list is a list); an       *)
(* unknown id is answered with a null entry.                               *)
(***************************************************************************)
ArtistIds == {"X", "Y"}

Line(type, text)  == [type |-> type, text |-> text]
Ref(id, name)     == [id |-> id, name |-> name]

AlbumA1 == [isnull |-> FALSE, id |-> "a1",
            copyrights |-> <<Line("C", "2024 Jane"), Line("P", "2024 Records DK")>>,
            artists |-> <<Ref("X", "Jane"), Ref("Z", "")>>]
AlbumA2 == [isnull |-> FALSE, id |-> "a2",
            copyrights |-> <<Line("C", "1 records dk"), Line("P", "2025 Universal"),
                             Line("P", "2024Records DK")>>,
            artists |-> <<Ref("X", "Jane"), Ref("Y", "Bob")>>]
AlbumA3 == [isnull |-> FALSE, id |-> "a3",
            copyrights |-> <<Line("P", "(P) 2023 Sony Music 77  RECORDS\tdk")>>,
            artists |-> <<Ref("Y", "Bob"), Ref("", "Anon")>>]
NullAlbum == [isnull |-> TRUE, id |-> "", copyrights |-> <<>>, artists |-> <<>>]

AlbumIds     == {"a1", "a2", "a3"}
AlbumRecords == {AlbumA1, AlbumA2, AlbumA3, NullAlbum}

\* the lists the albums endpoint may send for m ids: an entry per id, or nothing
AlbumLists(m) == {<<>>} \cup [1..m -> AlbumRecords]

Artist(id, followers) == [isnull |-> FALSE, id |-> id, followers |-> followers]
NullArtist == [isnull |-> TRUE, id |-> "", followers |-> 0]
ArtistRecords ==
    {Artist("X", 500), Artist("X", MAX_FOLLOWERS), Artist("Y", MAX_FOLLOWERS - 1),
     Artist("W", 5), NullArtist}

ArtistLists(m) == {<<>>} \cup [1..m -> ArtistRecords]

\* the lists the upstream may send for a chunk of m ids of this kind
ListsOf(kind, m) == IF kind = "albums" THEN AlbumLists(m) ELSE ArtistLists(m)

\* the answers the upstream may give to the chunks of ids
OutcomeSeqs(ids, K, kind) ==
    LET nc  == NumChunks(Len(ids), K)
        For(c) == ChunkOutcomes(ListsOf(kind, Len(Chunk(ids, K, c))))
    IN  {outs \in [1..nc -> UNION {For(c) : c \in 1..nc}] : \A c \in 1..nc : outs[c] \in For(c)}

(***************************************************************************)
(* check_artist_most_recent_release                                        *)
(***************************************************************************)
\* the pattern's verdict on every text of the catalogue, computed once
CatalogueTexts ==
    UNION {{a.copyrights[i].text : i \in 1..Len(a.copyrights)} : a \in AlbumRecords}
PLineVerdict == [t \in CatalogueTexts |-> P_LINE_REGEX_search(t)]

\* the type of the copyright is not looked at
HasAnyLine(album) ==
    \E i \in 1..Len(album.copyrights) : PLineVerdict[album.copyrights[i].text]

\* some copyright of the album has type 'P' and a text the pattern matches
HasPLine(album) ==
    \E i \in 1..Len(album.copyrights) :
        /\ album.copyrights[i].type = "P"
        /\ PLineVerdict[album.copyrights[i].text]

\* The upstream's side of one verification: the answer to artists/{id}/albums
\* (its status and its first item: none, an item without 'id', or an album id) and
\* the answer to the album lookup that follows.
VerifOutcomes ==
       {[status |-> st, item |-> "none", detail |-> NoOutcome] : st \in {"429", "500", "exc"}}
    \cup {[status |-> "200", item |-> it, detail |-> NoOutcome] : it \in {"none", "no_id"}}
    \cup {[status |-> "200", item |-> it, detail |-> o] :
              it \in AlbumIds, o \in ChunkOutcomes(AlbumLists(1))}

\* steps 2 and 3 of the try, d being what get_full_album_details returned for
\* the most recent album: nothing, a null record (AttributeError), or the
\* record whose P-lines are checked
CheckRelease(d) ==
    IF d.escaped
    THEN [result |-> FALSE, error |-> TRUE, cause |-> "fetch_failed", release |-> NullAlbum]
    ELSE IF d.list = <<>>
    THEN [result |-> FALSE, error |-> FALSE, cause |-> "no_details", release |-> NullAlbum]
    ELSE IF d.list[1].isnull
    THEN [result |-> FALSE, error |-> TRUE, cause |-> "malformed", release |-> NullAlbum]
    ELSE IF HasPLine(d.list[1])
    THEN [result |-> TRUE, error |-> FALSE, cause |-> "confirmed", release |-> d.list[1]]
    ELSE [result |-> FALSE, error |-> FALSE, cause |-> "no_pline", release |-> d.list[1]]

\* the body of the try: error tells that it ended with an exception
\* (raise_for_status or the request itself, KeyError on an item without 'id',
\* AttributeError on a null record, anything escaping the album lookup)
CheckTry(v) ==
    IF v.status # "200"
    THEN [result |-> FALSE, error |-> TRUE, cause |-> "fetch_failed", release |-> NullAlbum]
    ELSE IF v.item = "none"
    THEN [result |-> FALSE, error |-> FALSE, cause |-> "no_items", release |-> NullAlbum]
    ELSE IF v.item = "no_id"
    THEN [result |-> FALSE, error |-> TRUE, cause |-> "malformed", release |-> NullAlbum]
    ELSE CheckRelease(GetBatch(<<v.item>>, AlbumChunk, <<v.detail>>))

\* the endpoints a verification asks: the album lookup follows only an item with an id
CheckAsked(v) ==
    IF v.status = "200" /\ v.item \in AlbumIds THEN {"artist_albums", "albums"}
    ELSE {"artist_albums"}

\* the try has no except: the exception reaches the caller
CheckEndNoExcept(t) ==
    [result |-> t.result /\ ~t.error, raised |-> t.error, cause |-> t.cause,
     release |-> t.release]

\* what the caller gets when the try ended as t:
\* except Exception: return False -- nothing is raised to the caller
CheckEnd(t) ==
    [result |-> t.result /\ ~t.error, raised |-> FALSE, cause |-> t.cause,
     release |-> t.release]

check_artist_most_recent_release(v) == CheckEnd(CheckTry(v))

(***************************************************************************)
(* get_details                                                             *)
(***************************************************************************)
NoResponse == [status |-> 0, body |-> "none"]
\* an exception leaves the handler: Flask answers 500
Crash      == [status |-> 500, body |-> "crash"]
NoCheck    == [artist |-> "", result |-> FALSE, cause |-> "none", release |-> NullAlbum]

DetInit ==
    /\ artists_already_found = {} /\ full_albums = <<>> /\ ai = 1 /\ ri = 1
    /\ artists_to_fetch_details_for = <<>> /\ final_artist_list = <<>>
    /\ lastCheck = NoCheck /\ confirmed = {} /\ failedCheck = {} /\ detailed = <<>>

\* the dict artists_to_fetch_details_for, in insertion order
HasKey(d, id)  == \E i \in 1..Len(d) : d[i].id = id
KeyIndex(d, id) == CHOOSE i \in 1..Len(d) : d[i].id = id
DictSet(d, id, name) ==
    IF HasKey(d, id) THEN [d EXCEPT ![KeyIndex(d, id)] = Ref(id, name)]
    ELSE Append(d, Ref(id, name))
Keys(d) == [i \in 1..Len(d) |-> d[i].id]

\* the request's album_ids: up to MaxAlbums ids
RequestIds   == {"a1", "a2"}
AlbumIdLists == UNION {[1..n -> RequestIds] : n \in 0..MaxAlbums}

\* if not album_ids: 400, before any credential exchange
GetDetailsNoIds ==
    /\ pc = "idle"
    /\ \E S \in SUBSET ArtistIds : artists_already_found' = S
    /\ handler' = "get_details"
    /\ response' = [status |-> 400, body |-> "error"]
    /\ pc' = "done"
    /\ UNCHANGED <<env, exchange, token, asked, scanVars, batVars,
                   full_albums, ai, ri, artists_to_fetch_details_for, final_artist_list,
                   lastCheck, confirmed, failedCheck, detailed>>

\* token = get_spotify_token(); if not token: 500
GetDetailsAuthFail ==
    /\ pc = "idle"
    /\ \E ids \in AlbumIdLists \ {<<>>}, S \in SUBSET ArtistIds, a \in ExchangeAnswers :
        /\ get_spotify_token(env, a) = "None"
        /\ exchange' = ExchangeSeen(env, a)
        /\ token' = get_spotify_token(env, a)
        /\ artists_already_found' = S
    /\ handler' = "get_details"
    /\ response' = [status |-> 500, body |-> "error"]
    /\ pc' = "done"
    /\ UNCHANGED <<env, asked, scanVars, batVars,
                   full_albums, ai, ri, artists_to_fetch_details_for, final_artist_list,
                   lastCheck, confirmed, failedCheck, detailed>>

\* line 350, f being what get_full_album_details returned
Fetched(f) ==
    /\ full_albums' = f.list
    /\ asked' = asked \cup {"albums"}
    /\ pc' = IF f.escaped THEN "done" ELSE "filter"
    /\ response' = IF f.escaped THEN Crash ELSE response

\* the token is there: full_albums = get_full_album_details(album_ids, token)
GetDetailsFetch ==
    /\ pc = "idle"
    /\ \E ids \in AlbumIdLists \ {<<>>}, S \in SUBSET ArtistIds, a \in ExchangeAnswers :
        /\ get_spotify_token(env, a) # "None"
        /\ exchange' = ExchangeSeen(env, a)
        /\ token' = get_spotify_token(env, a)
        /\ artists_already_found' = S
        /\ \E outs \in OutcomeSeqs(ids, AlbumChunk, "albums") :
             Fetched(GetBatch(ids, AlbumChunk, outs))
    /\ handler' = "get_details"
    /\ ai' = 1 /\ ri' = 1
    /\ UNCHANGED <<env, scanVars, batVars,
                   artists_to_fetch_details_for, final_artist_list,
                   lastCheck, confirmed, failedCheck, detailed>>

\* the album the filter loop stands on yields artists: it is there and one of its
\* copyrights passes the filter (the loop breaks at the first that does)
AlbumYields(album) == ~album.isnull /\ HasPLine(album)

\* the test against artists_already_found is missing
EligibleUnseen(artist, S) == artist.id # "" /\ artist.name # ""

\* if artist_id and artist_name and artist_id not in artists_already_found
Eligible(artist, S) == artist.id # "" /\ artist.name # "" /\ artist.id \notin S

\* the album is null or no copyright passes, or its artists are done: next album
FilterNextAlbum ==
    /\ pc = "filter"
    /\ ai <= Len(full_albums)
    /\ \/ ~AlbumYields(full_albums[ai])
       \/ ri > Len(full_albums[ai].artists)
    /\ ai' = ai + 1 /\ ri' = 1
    /\ UNCHANGED <<pc, handler, env, exchange, token, asked, response, scanVars, batVars,
                   artists_already_found, full_albums,
                   artists_to_fetch_details_for, final_artist_list,
                   lastCheck, confirmed, failedCheck, detailed>>

\* an artist without id or name, or already found: nothing is asked about it
FilterArtistSkip ==
    /\ pc = "filter"
    /\ ai <= Len(full_albums)
    /\ AlbumYields(full_albums[ai])
    /\ ri <= Len(full_albums[ai].artists)
    /\ ~Eligible(full_albums[ai].artists[ri], artists_already_found)
    /\ ri' = ri + 1
    /\ UNCHANGED <<pc, handler, env, exchange, token, asked, response, scanVars, batVars,
                   artists_already_found, full_albums, ai,
                   artists_to_fetch_details_for, final_artist_list,
                   lastCheck, confirmed, failedCheck, detailed>>

\* the fetch failures of a verification, as against a release that was read
FetchCauses == {"fetch_failed", "no_items", "malformed", "no_details"}

\* lines 368-372 for the artist, c being what the check returned
Checked(artist, v, c) ==
    /\ artists_to_fetch_details_for' =
          IF c.result
          THEN DictSet(artists_to_fetch_details_for, artist.id, artist.name)
          ELSE artists_to_fetch_details_for
    /\ asked' = asked \cup CheckAsked(v)
    /\ lastCheck' = [artist |-> artist.id, result |-> c.result, cause |-> c.cause,
                     release |-> c.release]
    /\ confirmed' = IF c.result THEN confirmed \cup {artist.id} ELSE confirmed
    /\ failedCheck' = IF c.cause \in FetchCauses THEN failedCheck \cup {artist.id}
                      ELSE failedCheck
    /\ pc' = IF c.raised THEN "done" ELSE "filter"
    /\ response' = IF c.raised THEN Crash ELSE response

\* a candidate: its most recent release is checked, and it is kept on True
FilterArtistCheck ==
    /\ pc = "filter"
    /\ ai <= Len(full_albums)
    /\ AlbumYields(full_albums[ai])
    /\ ri <= Len(full_albums[ai].artists)
    /\ Eligible(full_albums[ai].artists[ri], artists_already_found)
    /\ \E v \in VerifOutcomes :
          Checked(full_albums[ai].artists[ri], v, check_artist_most_recent_release(v))
    /\ ri' = ri + 1
    /\ UNCHANGED <<handler, env, exchange, token, scanVars, batVars,
                   artists_already_found, full_albums, ai, final_artist_list, detailed>>

\* steps 3 and 4: every detailed artist that is a key of the dict and is under the
\* follower cap, in the order of the detail records
AssembleArtists(d, details) ==
    LET keep(r) == ~r.isnull /\ HasKey(d, r.id) /\ r.followers < MAX_FOLLOWERS
        kept    == SelectSeq(details, keep)
    IN  [i \in 1..Len(kept) |->
            [id |-> kept[i].id, name |-> d[KeyIndex(d, kept[i].id)].name,
             followers |-> kept[i].followers]]

\* nothing was found: {"artists": []}
GetDetailsEmpty ==
    /\ pc = "filter"
    /\ ai > Len(full_albums)
    /\ artists_to_fetch_details_for = <<>>
    /\ response' = [status |-> 200, body |-> "artists"]
    /\ pc' = "done"
    /\ UNCHANGED <<handler, env, exchange, token, asked, scanVars, batVars, detVars>>

\* lines 382-405, g being what get_artist_details returned
Assembled(g) ==
    /\ detailed' = g.list
    /\ asked' = asked \cup {"artists"}
    /\ final_artist_list' =
          IF g.escaped THEN <<>>
          ELSE AssembleArtists(artists_to_fetch_details_for, g.list)
    /\ response' = IF g.escaped THEN Crash ELSE [status |-> 200, body |-> "artists"]

\* get_artist_details for the keys of the dict, then the final list
GetDetailsAssemble ==
    /\ pc = "filter"
    /\ ai > Len(full_albums)
    /\ artists_to_fetch_details_for # <<>>
    /\ \E outs \in OutcomeSeqs(Keys(artists_to_fetch_details_for), ArtistChunk, "artists") :
          Assembled(GetBatch(Keys(artists_to_fetch_details_for), ArtistChunk, outs))
    /\ pc' = "done"
    /\ UNCHANGED <<handler, env, exchange, token, scanVars, batVars,
                   artists_already_found, full_albums, ai, ri,
                   artists_to_fetch_details_for, lastCheck, confirmed, failedCheck>>

(***************************************************************************)
(* start_scan                                                              *)
(***************************************************************************)
ScanInit ==
    /\ total_results = 0 /\ random_offset = 0 /\ page = 0 /\ next_url = "None"
    /\ all_album_ids = {}

\* what total_results holds after the count request: the reported total, or the
\* default when the request fails or the answer carries no total
CountAnswers == [kind : {"failed", "no_total"}, total : {0}]
                  \cup [kind : {"total"}, total : 0..MaxTotal]

TotalResults(c) == IF c.kind = "total" THEN c.total ELSE DefaultTotal

\* max_possible_offset = min(total_results, 950); random_offset = 0;
\* if max_possible_offset > 50:
\*     random_offset = random.randint(0, max_possible_offset // 50) * 50
RandomOffsets(total) ==
    LET max_possible_offset == Min(total, OffsetCap) IN
    IF max_possible_offset > PageSize
    THEN {r * PageSize : r \in 0..(max_possible_offset \div PageSize)}
    ELSE {0}

\* token = get_spotify_token(); if not token: 500
StartScanAuthFail ==
    /\ pc = "idle"
    /\ \E a \in ExchangeAnswers :
        /\ get_spotify_token(env, a) = "None"
        /\ exchange' = ExchangeSeen(env, a)
        /\ token' = get_spotify_token(env, a)
    /\ handler' = "start_scan"
    /\ response' = [status |-> 500, body |-> "error"]
    /\ pc' = "done"
    /\ UNCHANGED <<env, asked, scanVars, detVars, batVars>>

\* the count request and the choice of the offset
StartScanCount ==
    /\ pc = "idle"
    /\ \E a \in ExchangeAnswers, c \in CountAnswers :
        /\ get_spotify_token(env, a) # "None"
        /\ exchange' = ExchangeSeen(env, a)
        /\ token' = get_spotify_token(env, a)
        /\ total_results' = TotalResults(c)
        /\ random_offset' \in RandomOffsets(TotalResults(c))
    /\ handler' = "start_scan"
    /\ asked' = asked \cup {"search"}
    /\ page' = 0 /\ next_url' = "search_url"
    /\ pc' = "search"
    /\ UNCHANGED <<env, response, all_album_ids, detVars, batVars>>

\* the count answers with a null total: min(None, 950) raises, and the except of
\* search 1 ends that search before its first page
StartScanTotalNull ==
    /\ pc = "idle"
    /\ \E a \in ExchangeAnswers :
        /\ get_spotify_token(env, a) # "None"
        /\ exchange' = ExchangeSeen(env, a)
        /\ token' = get_spotify_token(env, a)
    /\ handler' = "start_scan"
    /\ asked' = asked \cup {"search"}
    /\ page' = 0 /\ next_url' = "browse_url"
    /\ pc' = "browse"
    /\ UNCHANGED <<env, response, total_results, random_offset, all_album_ids,
                   detVars, batVars>>

\* the album ids a page may carry
ScanIds == {"a1", "a2"}

\* one page of either search: the items with an id join the set, next is kept.
\* params (and with it the offset) is sent with page 0 only; after that request
\* total_results and random_offset are dead and are not carried further.
PageOk(phase) ==
    /\ pc = phase
    /\ page < ScanPages
    /\ next_url # "None"
    /\ \E items \in SUBSET ScanIds, nxt \in {"None", "next_url"} :
        /\ all_album_ids' = all_album_ids \cup items
        /\ next_url' = nxt
    /\ page' = page + 1
    /\ asked' = asked \cup {phase}
    /\ total_results' = 0 /\ random_offset' = 0
    /\ UNCHANGED <<pc, handler, env, exchange, token, response, detVars, batVars>>

SearchPage == PageOk("search")
BrowsePage == PageOk("browse")

\* the page request fails: the except of search 1 ends it
SearchPageFails ==
    /\ pc = "search"
    /\ page < ScanPages
    /\ next_url # "None"
    /\ asked' = asked \cup {"search"}
    /\ pc' = "browse"
    /\ page' = 0 /\ next_url' = "browse_url"
    /\ total_results' = 0 /\ random_offset' = 0
    /\ UNCHANGED <<handler, env, exchange, token, response, all_album_ids, detVars, batVars>>

\* ten pages are read, or there is no next page
SearchEnd ==
    /\ pc = "search"
    /\ page = ScanPages \/ next_url = "None"
    /\ pc' = "browse"
    /\ page' = 0 /\ next_url' = "browse_url"
    /\ UNCHANGED <<handler, env, exchange, token, asked, response,
                   total_results, random_offset, all_album_ids, detVars, batVars>>

\* search 2 ends, by a failed request or by its loop: {"album_ids": [...]}
BrowsePageFails ==
    /\ pc = "browse"
    /\ page < ScanPages
    /\ next_url # "None"
    /\ asked' = asked \cup {"browse"}
    /\ response' = [status |-> 200, body |-> "album_ids"]
    /\ pc' = "done"
    /\ UNCHANGED <<handler, env, exchange, token, scanVars, detVars, batVars>>

BrowseEnd ==
    /\ pc = "browse"
    /\ page = ScanPages \/ next_url = "None"
    /\ response' = [status |-> 200, body |-> "album_ids"]
    /\ pc' = "done"
    /\ UNCHANGED <<handler, env, exchange, token, asked, scanVars, detVars, batVars>>

(***************************************************************************)
(* The server                                                              *)
(***************************************************************************)
\* the response is sent (or the helper has returned): the call's state is gone
Return ==
    /\ pc \in {"done", "returned", "raised"}
    /\ pc' = "idle"
    /\ handler' = "none"
    /\ exchange' = "none" /\ token' = "unset" /\ asked' = {}
    /\ response' = NoResponse
    /\ total_results' = 0 /\ random_offset' = 0 /\ page' = 0 /\ next_url' = "None"
    /\ all_album_ids' = {}
    /\ artists_already_found' = {} /\ full_albums' = <<>> /\ ai' = 1 /\ ri' = 1
    /\ artists_to_fetch_details_for' = <<>> /\ final_artist_list' = <<>>
    /\ lastCheck' = NoCheck /\ confirmed' = {} /\ failedCheck' = {} /\ detailed' = <<>>
    /\ b_kind' = "none" /\ b_ids' = <<>> /\ b_i' = 0 /\ b_list' = <<>> /\ b_reqs' = 0
    /\ b_last' = NoChunk /\ b_answered' = <<>> /\ b_chunks' = 0 /\ b_failed' = 0 /\ b_clean' = TRUE
    /\ UNCHANGED env

Init ==
    /\ pc = "idle"
    /\ handler = "none"
    /\ env \in [id : BOOLEAN, secret : BOOLEAN]
    /\ exchange = "none" /\ token = "unset" /\ asked = {}
    /\ response = NoResponse
    /\ ScanInit /\ DetInit /\ BatInit

Next ==
    \/ StartScanAuthFail
    \/ StartScanCount
    \/ StartScanTotalNull
    \/ SearchPage
    \/ SearchPageFails
    \/ SearchEnd
    \/ BrowsePage
    \/ BrowsePageFails
    \/ BrowseEnd
    \/ GetDetailsNoIds
    \/ GetDetailsAuthFail
    \/ GetDetailsFetch
    \/ FilterNextAlbum
    \/ FilterArtistSkip
    \/ FilterArtistCheck
    \/ GetDetailsEmpty
    \/ GetDetailsAssemble
    \/ \E kind \in {"albums", "artists"}, dup \in BOOLEAN :
          \E n \in Lengths(ChunkSize(kind)) : BatchCall(kind, n, dup)
    \/ BatchChunk
    \/ BatchReturn
    \/ Return

Spec == Init /\ [][Next]_vars

(***************************************************************************)
(* Properties                                                              *)
(***************************************************************************)
OutputIds == {final_artist_list[i].id : i \in 1..Len(final_artist_list)}
KeySet    == {artists_to_fetch_details_for[i].id :
                 i \in 1..Len(artists_to_fetch_details_for)}

\* an artist with this id stands on an album of full_albums that passed the filter
OnYieldingAlbum(id) ==
    \E k \in 1..Len(full_albums) :
        /\ AlbumYields(full_albums[k])
        /\ \E r \in 1..Len(full_albums[k].artists) : full_albums[k].artists[r].id = id

\* C1: no artist whose id is in artists_already_found is in the 'artists' list
\* that get_details returns, whatever the upstream answered.
C1_AlreadyFoundExcluded ==
    \A i \in 1..Len(final_artist_list) :
        final_artist_list[i].id \notin artists_already_found

\* a call that returned artists although an already-found artist stood on an
\* album that passed the filter
C1_Witness ==
    /\ pc = "done" /\ handler = "get_details"
    /\ final_artist_list # <<>>
    /\ "X" \in artists_already_found
    /\ OnYieldingAlbum("X")

\* the catalogue texts that carry the distributor marker (digits, white space,
\* "records", white space, "dk", any case), listed by hand
MarkerTexts == {"2024 Records DK", "1 records dk", "(P) 2023 Sony Music 77  RECORDS\tdk"}

CarriesMarkedPLine(album) ==
    \E i \in 1..Len(album.copyrights) :
        album.copyrights[i].type = "P" /\ album.copyrights[i].text \in MarkerTexts

\* C2: an artist is in the output (and among the candidates) only if a check of
\* its most recent release returned True in this call, and a check returns True
\* only on a release with a type-'P' line carrying the distributor marker.
C2_OnlyVerifiedPromoted ==
    /\ OutputIds \subseteq confirmed
    /\ KeySet \subseteq confirmed
    /\ lastCheck.result => (lastCheck.artist \in confirmed
                            /\ ~lastCheck.release.isnull
                            /\ CarriesMarkedPLine(lastCheck.release))

\* the artist stood on an album that matched, its most recent release reads
\* "2025 Universal", and it is left out of a list that holds another artist
C2_Witness ==
    /\ pc = "done" /\ handler = "get_details"
    /\ final_artist_list # <<>>
    /\ lastCheck.cause = "no_pline"
    /\ lastCheck.release = AlbumA2
    /\ OnYieldingAlbum(lastCheck.artist)
    /\ lastCheck.artist \notin artists_already_found
    /\ lastCheck.artist \notin OutputIds

\* major-label markers, as the specification's scenarios name them
MajorLabelMarkers == {"sony", "universal", "warner"}

\* some copyright text of the album contains a major-label marker, any case
MajorAlbum ==
    [a \in AlbumRecords |->
        \E i \in 1..Len(a.copyrights) : \E m \in MajorLabelMarkers :
            \E k \in 1..Len(a.copyrights[i].text) : LitAt(a.copyrights[i].text, k, m)]

\* C3: an album whose copyright text contains a major-label marker yields no
\* match: get_details takes no candidate from it and no check confirms on it.
C3_MajorLabelVeto ==
    /\ (pc = "filter" /\ ai <= Len(full_albums) /\ MajorAlbum[full_albums[ai]])
          => ~AlbumYields(full_albums[ai])
    /\ lastCheck.result => ~MajorAlbum[lastCheck.release]

\* C4: no artist id stands twice in the 'artists' list of one get_details call.
C4_NoArtistTwice ==
    \A i, j \in 1..Len(final_artist_list) :
        i < j => final_artist_list[i].id # final_artist_list[j].id

\* the credential exchange of this call failed
AuthFailed == exchange \in {"not_sent", "no_token", "http_error", "exception"}

\* C5: when the credential exchange fails, start_scan and get_details answer
\* with the one error response and have asked no API endpoint.
C5_AuthFailureAborts ==
    (handler \in {"start_scan", "get_details"} /\ AuthFailed) =>
        /\ pc = "done"
        /\ response = [status |-> 500, body |-> "error"]
        /\ asked = {}
        /\ final_artist_list = <<>>
        /\ all_album_ids = {}

C5_Witness ==
    /\ handler = "start_scan" /\ pc = "done"
    /\ exchange = "no_token"

\* the least c with c * K >= n
CeilDiv(n, K) == CHOOSE c \in 0..n : c * K >= n /\ (c = 0 \/ (c - 1) * K < n)

NonNull(list) == SelectSeq(list, LAMBDA r : ~r.isnull)
NoDupIds(list) ==
    Cardinality({NonNull(list)[i].id : i \in 1..Len(NonNull(list))}) = Len(NonNull(list))
InputDistinct == Cardinality({b_ids[i] : i \in 1..Len(b_ids)}) = Len(b_ids)

\* C6, as claimed: exactly ceil(N/K) requests, each of at most K ids, and no id
\* twice in the result.
C6_Original ==
    /\ Len(b_last.chunk) <= ChunkSize(b_kind)
    /\ pc = "returned" =>
          /\ b_reqs = CeilDiv(Len(b_ids), ChunkSize(b_kind))
          /\ NoDupIds(b_list)

\* C6, amended: exactly ceil(N/K) chunks are requested, each of at most K ids,
\* with one request per chunk or two; the result holds no id twice when the
\* ids given are distinct and every list delivered held only ids of its chunk,
\* once each.
C6_Amended ==
    /\ Len(b_last.chunk) <= ChunkSize(b_kind)
    /\ b_chunks > 0 => b_last.requests \in {1, 2}
    /\ pc = "returned" =>
          /\ b_chunks = CeilDiv(Len(b_ids), ChunkSize(b_kind))
          /\ b_chunks <= b_reqs /\ b_reqs <= 2 * b_chunks
          /\ (InputDistinct /\ b_clean) => NoDupIds(b_list)

\* several chunks, one of them asked twice, distinct ids, clean answers
C6_Witness ==
    /\ pc = "returned"
    /\ b_chunks >= 2 /\ b_reqs > b_chunks
    /\ InputDistinct /\ b_clean
    /\ Len(b_list) > ChunkSize(b_kind)

\* C7: a chunk whose request fails is skipped: nothing is raised, every chunk is
\* still requested, and the result is the lists of the chunks that succeeded,
\* in chunk order.
C7_FailedChunkSkipped ==
    /\ pc # "raised"
    /\ pc \in {"batch", "returned"} => b_list = b_answered
    /\ b_chunks > 0 => b_last.requests >= 1
    /\ pc = "returned" => b_chunks = CeilDiv(Len(b_ids), ChunkSize(b_kind))

\* a chunk failed and a later one succeeded and is in the result
C7_Witness ==
    /\ pc = "returned"
    /\ b_failed >= 1 /\ b_chunks >= 2
    /\ b_last.ok /\ b_last.o.body.list # <<>>
    /\ b_list # <<>>

\* the latest chunk was given up as rate-limited: its last answer was a 429
GaveUpRateLimited ==
    /\ b_last.o.first = "429"
    /\ ~b_last.ok
    /\ b_last.requests = 1 \/ b_last.o.second = "429"

\* the Retry-After header is absent or a non-negative integer
HintUsable(h) == ~h.present \/ h.text = "5"

\* C8, as claimed: a 429 is followed by a sleep and a retry, and a request is
\* given up as rate-limited only after 3 to 4 attempts.
C8_Original ==
    /\ b_last.o.first = "429" => b_last.requests >= 2
    /\ GaveUpRateLimited => b_last.requests \in {3, 4}

\* C8, amended: on a 429 whose Retry-After is absent (10 s) or a non-negative
\* integer, the client sleeps that long and asks the same chunk once more: two
\* attempts are the ceiling; a header that is no non-negative integer, or a
\* second answer that is no success, ends the chunk; a chunk answered with a
\* success on either attempt contributes its records.
C8_Amended ==
    b_chunks > 0 =>
        /\ b_last.requests \in {1, 2}
        /\ b_last.o.first # "429" => b_last.requests = 1 /\ b_last.slept = 0
        /\ (b_last.o.first = "429" /\ ~b_last.o.hint.present)
              => b_last.requests = 2 /\ b_last.slept = DefaultRetry
        /\ (b_last.o.first = "429" /\ b_last.o.hint.present /\ b_last.o.hint.text = "5")
              => b_last.requests = 2 /\ b_last.slept = 5
        /\ (b_last.o.first = "429" /\ ~HintUsable(b_last.o.hint))
              => b_last.requests = 1 /\ ~b_last.ok
        /\ (b_last.requests = 2 /\ b_last.o.second # "200") => ~b_last.ok
        /\ ((b_last.o.first = "200" \/ (b_last.requests = 2 /\ b_last.o.second = "200"))
               /\ b_last.o.body.json_ok)
              => /\ b_last.ok
                 /\ Len(b_list) >= Len(b_last.o.body.list)
                 /\ SubSeq(b_list, Len(b_list) - Len(b_last.o.body.list) + 1, Len(b_list))
                       = b_last.o.body.list

\* a chunk answered 429 without header, then with a success whose records are kept
C8_Witness ==
    /\ b_chunks > 0
    /\ b_last.o.first = "429" /\ ~b_last.o.hint.present
    /\ b_last.requests = 2 /\ b_last.ok
    /\ b_last.o.body.list # <<>>
    /\ b_list # <<>>

\* C9, as claimed: a verification that fails returns False, the artist is left
\* out of the output, and get_details goes on and answers normally.
C9_Original ==
    /\ lastCheck.cause \in FetchCauses => ~lastCheck.result
    /\ failedCheck \cap OutputIds = {}
    /\ failedCheck # {} =>
          /\ pc \in {"filter", "done"}
          /\ pc = "done" => response = [status |-> 200, body |-> "artists"]

\* C9, amended: a verification that fails returns False without raising and by
\* itself adds the artist neither to the candidates nor to the output (the artist
\* is there only if another check of it returned True in the same call);
\* get_details goes on through the remaining albums and answers normally.
C9_Amended ==
    /\ lastCheck.cause \in FetchCauses => ~lastCheck.result
    /\ (failedCheck \ confirmed) \cap (OutputIds \cup KeySet) = {}
    /\ failedCheck # {} =>
          /\ pc \in {"filter", "done"}
          /\ pc = "done" => /\ response = [status |-> 200, body |-> "artists"]
                            /\ ai > Len(full_albums)

\* an artist's only verification failed, and the call returned another artist
C9_Witness ==
    /\ pc = "done" /\ handler = "get_details"
    /\ failedCheck \ confirmed # {}
    /\ final_artist_list # <<>>
    /\ response.status = 200

\* C10: the offset of the first search request is a multiple of 50 in 0..950
\* that stays below the total the upstream reported (0 when the total is 0).
C10_OffsetInRange ==
    (pc = "search" /\ page = 0 /\ next_url = "search_url") =>
        /\ random_offset >= 0 /\ random_offset <= OffsetCap
        /\ random_offset % PageSize = 0
        /\ total_results > 0 => random_offset < total_results
        /\ total_results = 0 => random_offset = 0

====
